---- MODULE Spec2Model ----
(***************************************************************************)
(* Model of the experience-replay buffers of yw/ddpg_main/replay_buffer.py *)
(* (ReplayBufferBase, RingReplayBuffer, ReplayBuffer with its subclasses    *)
(* UniformReplayBuffer and HERReplayBuffer).  One buffer object is         *)
(* modelled; its class is fixed at construction (variable variant).        *)
(* The content of a slot is abstracted to one value per schema field: a    *)
(* unique tag for data fields, 0/1 for the "done" marker.  In the episode  *)
(* buffers a slot holds an episode, and step t of field f of the episode   *)
(* tagged e is the term <<f, e, t>>.                                       *)
(* The choice of the class by DDPG._create_replay_buffer (ddpg.py) is       *)
(* modelled for the runs that start before the buffer is constructed.      *)
(***************************************************************************)
EXTENDS Integers, Sequences, FiniteSets, TLC

\* ------------------------------------------------------------------ bounds
\* self.size: the capacity the buffer is constructed with.
Capacity == 2
\* Number of distinct record tags handed out to store calls.
MaxStamp == 4
\* self.T: the horizon of the episode buffers.
Horizon == 2
\* Largest k (ratio of relabelled to regular samples) HERReplayBuffer is
\* constructed with.
MaxK == 1

\* ------------------------------------------------------------------ state
VARIABLES
    variant,        \* "ring" (RingReplayBuffer), "episode" (UniformReplayBuffer)
                    \* or "her" (HERReplayBuffer)
    future_p,       \* HERReplayBuffer.future_p as <<numerator, denominator>>
    buffers,        \* self.buffers: key -> (slot -> value)
    current_size,   \* self.current_size
    pointer,        \* RingReplayBuffer.pointer (0 and unused for "episode")
    file,           \* the archive written by dump_to_file: key -> sequence
    call,           \* the last call: its name, batch size, outcome, indices
    nextStamp,      \* next unused record tag
    run,            \* length of the current run of single-transition stores
    runStart        \* tag of the first transition of that run

vars == <<variant, future_p, buffers, current_size, pointer, file, call, nextStamp, run, runStart>>

Slots == 0 .. (Capacity - 1)

\* Content of a slot of np.empty(...) that was never written.
Uninit == -1

\* buffer_shapes.keys() in iteration order: a transition schema for the ring
\* buffer, a goal-conditioned episode schema for the uniform buffer, and for
\* the hindsight buffer that schema with the reward, an info field and the
\* field "q" that line 304 of replay_buffer.py looks for.
Keys(v) ==
    IF v = "ring" THEN <<"u", "done">>
    ELSE IF v = "her" THEN <<"o", "u", "r", "ag", "g", "info_x", "q">>
    ELSE <<"o", "u", "ag", "g">>

KeySet(v) == {Keys(v)[i] : i \in 1 .. Len(Keys(v))}

Min(a, b) == IF a <= b THEN a ELSE b

\* np.arange(lo, hi)
Arange(lo, hi) == [i \in 1 .. (IF hi > lo THEN hi - lo ELSE 0) |-> lo + i - 1]

\* The archive that does not exist.
NoFile == [k \in {} |-> <<>>]

\* The batch of a call that returns none.
NoBatch == [f \in {} |-> <<>>]

NoCall == [op |-> "init", outcome |-> "ok", idxs |-> <<>>, sizes |-> {},
           size0 |-> 0, ptr0 |-> 0, ret |-> NoBatch, views |-> {},
           t_samples |-> <<>>, her_indexes |-> {}, future_t |-> <<>>,
           config |-> <<>>]

\* What a call leaves to observe: its name, how it ended, the indices it drew
\* or allocated, the leading dimensions of the batch it was given (for
\* sample, the batch_size asked for), and current_size and pointer as the
\* call found them.
Called(op, outcome, idxs, sizes) ==
    [NoCall EXCEPT !.op = op, !.outcome = outcome, !.idxs = idxs,
                   !.sizes = sizes, !.size0 = current_size, !.ptr0 = pointer]

\* What a sampling call leaves to observe besides: the batch it returned
\* (field -> sequence of records), the returned fields that share memory
\* with self.buffers, and the timesteps, relabelled positions and future
\* timesteps it drew.
Sampled(op, idxs, sizes, ret, views, t_samples, her_indexes, future_t) ==
    [Called(op, "ok", idxs, sizes) EXCEPT
        !.ret = ret, !.views = views, !.t_samples = t_samples,
        !.her_indexes = her_indexes, !.future_t = future_t]

\* HERReplayBuffer.__init__, line 278: 1 - (1.0 / (1 + k)), as the fraction
\* <<numerator, denominator>>.  The other classes have no such attribute.
FutureP(k) == <<(1 + k) - 1, 1 + k>>

NoFutureP == <<0, 1>>

\* The buffer after construction, of one of the classes.
Constructed(variants) ==
    /\ variant \in variants
    /\ future_p \in (IF variant = "her" THEN {FutureP(k) : k \in 0 .. MaxK}
                                        ELSE {NoFutureP})
    /\ buffers = [k \in KeySet(variant) |-> [s \in Slots |-> Uninit]]
    /\ current_size = 0
    /\ pointer = 0
    /\ file = NoFile
    /\ call = NoCall
    /\ nextStamp = 1
    /\ run = 0
    /\ runStart = 1

Init == Constructed({"ring", "episode"})

\* ------------------------------------------------- ReplayBufferBase.store_episode
\* Mutant of BatchSizesAgree: np.any in place of np.all, which the first
\* field always satisfies.
BatchSizesAnyAgree(batch) ==
    \A j \in DOMAIN batch : \E k \in DOMAIN batch : Len(batch[j]) = Len(batch[k])

\* line 41: every field of the pushed batch has the same leading dimension.
BatchSizesAgree(batch) ==
    \A j \in DOMAIN batch : \A k \in DOMAIN batch : Len(batch[j]) = Len(batch[k])

\* line 40: the leading dimensions found in the pushed batch.
BatchSizes(batch) == {Len(batch[k]) : k \in DOMAIN batch}

\* line 42: batch_sizes[0] (read only after line 41 has passed).
BatchSize(batch) == Len(batch[CHOOSE k \in DOMAIN batch : TRUE])

\* Mutant of IncAccepted: the assertion against too large a batch is missing.
IncPositive(inc) == inc > 0

\* lines 121-122 and 224-225: the two assertions that open _get_storage_idx.
IncAccepted(inc) == inc <= Capacity /\ inc > 0

\* Mutant of RingIdx: the range is not split and wrapped at the capacity.
RingIdxNoWrap(p, inc) == Arange(p, p + inc)

\* RingReplayBuffer._get_storage_idx, the indices it returns (for inc = 1 the
\* code returns the scalar idx[0]; it is kept as a sequence of length 1).
RingIdx(p, inc) ==
    IF p + inc <= Capacity
    THEN Arange(p, p + inc)
    ELSE LET overflow == inc - (Capacity - p)
         IN  Arange(p, Capacity) \o Arange(0, overflow)

\* Mutant of RingPointer: the wrapping branch forgets to set the pointer.
RingPointerStuck(p, inc) ==
    IF p + inc <= Capacity
    THEN p + inc
    ELSE p

\* RingReplayBuffer._get_storage_idx, the pointer it leaves.
RingPointer(p, inc) ==
    IF p + inc <= Capacity
    THEN p + inc
    ELSE inc - (Capacity - p)

\* Mutant of EpisodeIdx: the sequential fill starts at slot 0 instead of at
\* current_size.
EpisodeIdxFromZero(cs, inc) ==
    IF cs + inc <= Capacity
    THEN {Arange(0, inc)}
    ELSE IF cs < Capacity
    THEN LET overflow == inc - (Capacity - cs)
         IN  {Arange(cs, Capacity) \o r : r \in [1 .. overflow -> 0 .. (cs - 1)]}
    ELSE [1 .. inc -> 0 .. (Capacity - 1)]

\* Mutant of EpisodeIdx: the overflow of a batch that outgrows the free slots
\* is drawn from every slot instead of from the slots filled before.
EpisodeIdxOverflowAnywhere(cs, inc) ==
    IF cs + inc <= Capacity
    THEN {Arange(cs, cs + inc)}
    ELSE IF cs < Capacity
    THEN LET overflow == inc - (Capacity - cs)
         IN  {Arange(cs, Capacity) \o r : r \in [1 .. overflow -> 0 .. (Capacity - 1)]}
    ELSE [1 .. inc -> 0 .. (Capacity - 1)]

\* ReplayBuffer._get_storage_idx: every index array np.random can produce.
EpisodeIdx(cs, inc) ==
    IF cs + inc <= Capacity
    THEN {Arange(cs, cs + inc)}
    ELSE IF cs < Capacity
    THEN LET overflow == inc - (Capacity - cs)
         IN  {Arange(cs, Capacity) \o r : r \in [1 .. overflow -> 0 .. (cs - 1)]}
    ELSE [1 .. inc -> 0 .. (Capacity - 1)]

\* self._get_storage_idx(batch_size) of the buffer's class.
GetStorageIdx(v, cs, p, inc) ==
    IF v = "ring" THEN {RingIdx(p, inc)} ELSE EpisodeIdx(cs, inc)

\* The pointer after self._get_storage_idx(batch_size).
PointerAfterIdx(v, p, inc) == IF v = "ring" THEN RingPointer(p, inc) ELSE p

\* Mutant of NewSize: the batch size is not added to current_size.
NewSizeReplaced(cs, b) == Min(Capacity, b)

\* Mutant of NewSize: current_size is not clamped to the capacity.
NewSizeUnclamped(cs, b) == cs + b

\* Mutant of NewSize: the clamp is one above the capacity.
NewSizeOffByOne(cs, b) == Min(Capacity + 1, cs + b)

\* line 51: self.current_size = min(self.size, self.current_size + batch_size)
NewSize(cs, b) == Min(Capacity, cs + b)

\* Mutant of Scatter: the array is allocated anew before the assignment.
ScatterIntoNew(arr, idx, vals) ==
    [s \in Slots |->
        LET hits == {i \in 1 .. Len(idx) : idx[i] = s}
            last == CHOOSE i \in hits : \A j \in hits : j <= i
        IN  IF hits = {} THEN Uninit
            ELSE IF Len(vals) = 1 THEN vals[1] ELSE vals[last]]

\* line 48 for one key: arr[idxs] = vals (on a repeated index the last wins).
\* A value of leading dimension 1 is broadcast over the indices.
Scatter(arr, idx, vals) ==
    [s \in Slots |->
        LET hits == {i \in 1 .. Len(idx) : idx[i] = s}
            last == CHOOSE i \in hits : \A j \in hits : j <= i
        IN  IF hits = {} THEN arr[s]
            ELSE IF Len(vals) = 1 THEN vals[1] ELSE vals[last]]

\* lines 47-48: position in buffers.keys() of the first key whose assignment
\* raises (KeyError: the batch lacks it; ValueError: its shape cannot be
\* broadcast to the indexed slots), or 0 when every assignment goes through.
FailAt(v, batch, bad, inc) ==
    LET f == {j \in 1 .. Len(Keys(v)) :
                 \/ Keys(v)[j] \notin DOMAIN batch
                 \/ Keys(v)[j] \in bad
                 \/ Len(batch[Keys(v)[j]]) \notin {inc, 1}}
    IN  IF f = {} THEN 0 ELSE CHOOSE j \in f : \A i \in f : j <= i

\* What store_episode(batch) ends with.
StoreOutcome(v, batch, bad) ==
    IF DOMAIN batch = {} THEN "IndexError"
    ELSE IF ~BatchSizesAgree(batch) THEN "AssertBatchSizes"
    ELSE IF ~IncAccepted(BatchSize(batch)) THEN "AssertIncrement"
    ELSE IF FailAt(v, batch, bad, BatchSize(batch)) = 0 THEN "ok"
    ELSE IF Keys(v)[FailAt(v, batch, bad, BatchSize(batch))] \notin DOMAIN batch
    THEN "KeyError"
    ELSE "ValueError"

\* Outcomes of store_episode reached after _get_storage_idx has returned.
Allocated(outcome) == outcome \in {"ok", "KeyError", "ValueError"}

\* lines 47-48: the arrays after the loop, which stops at the first raise.
WriteFields(v, bufs, batch, bad, idx) ==
    LET stop == FailAt(v, batch, bad, Len(idx))
    IN  [k \in KeySet(v) |->
            LET j == CHOOSE i \in 1 .. Len(Keys(v)) : Keys(v)[i] = k
            IN  IF stop = 0 \/ j < stop
                THEN Scatter(bufs[k], idx, batch[k])
                ELSE bufs[k]]

\* Bookkeeping for the ring buffer: <<length, first tag>> of the run of
\* consecutive single-transition stores that began on an empty buffer
\* (current_size = 0); any other call that reaches the index allocation ends
\* the run, a call rejected before it leaves the run as it is.
RunAfter(op, outcome, inc, cs, first) ==
    IF ~Allocated(outcome) THEN <<run, runStart>>
    ELSE IF outcome = "ok" /\ inc = 1 /\ op = "store"
    THEN IF cs = 0 THEN <<1, first>>
         ELSE IF run > 0 THEN <<run + 1, runStart>>
         ELSE <<0, runStart>>
    ELSE <<0, runStart>>

\* store_episode(episode_batch), called as operation op.
store_episode(op, batch, bad) ==
    LET outcome == StoreOutcome(variant, batch, bad)
    IN  IF ~Allocated(outcome)
        THEN /\ UNCHANGED <<buffers, current_size, pointer, run, runStart>>
             /\ call' = Called(op, outcome, <<>>, BatchSizes(batch))
        ELSE LET inc == BatchSize(batch)
             IN  \E idx \in GetStorageIdx(variant, current_size, pointer, inc) :
                    /\ pointer' = PointerAfterIdx(variant, pointer, inc)
                    /\ buffers' = WriteFields(variant, buffers, batch, bad, idx)
                    /\ current_size' = IF outcome = "ok"
                                       THEN NewSize(current_size, inc)
                                       ELSE current_size
                    /\ call' = Called(op, outcome, idx, BatchSizes(batch))
                    /\ run' = RunAfter(op, outcome, inc, current_size,
                                       IF "u" \in DOMAIN batch /\ inc > 0
                                       THEN batch["u"][1] ELSE 0)[1]
                    /\ runStart' = RunAfter(op, outcome, inc, current_size,
                                       IF "u" \in DOMAIN batch /\ inc > 0
                                       THEN batch["u"][1] ELSE 0)[2]

\* ------------------------------------------------------------- the driver's calls
AllKeys(v) == KeySet(v) \cup {"extra"}

\* A pushed batch of n records tagged from stamp on: key -> sequence of values.
\* The keys in odd carry one record more; D holds the positions marked done.
MakeBatch(present, n, odd, D, stamp) ==
    [k \in present |->
        [i \in 1 .. (IF k \in odd THEN n + 1 ELSE n) |->
            IF k = "done" THEN (IF i \in D THEN 1 ELSE 0) ELSE stamp + i - 1]]

\* The batches pushed: <<keys present, keys one record longer, keys of a wrong
\* per-step shape>>.  Well-formed, with an unknown key, empty, with a schema
\* key missing, with a wrong per-step shape, with disagreeing batch sizes.
BatchShapes(v) ==
    LET K == KeySet(v)
        k1 == Keys(v)[1]
        k2 == Keys(v)[2]
    IN  { <<K, {}, {}>>, <<K \cup {"extra"}, {}, {}>>, <<{}, {}, {}>>,
          <<K \ {k1}, {}, {}>>, <<K \ {k2}, {}, {}>>,
          <<K, {}, {k1}>>, <<K, {}, {k2}>>,
          <<K, {k2}, {}>>, <<K \cup {"extra"}, {"extra"}, {}>>,
          <<K, {k1}, {k2}>>, <<K \ {k1}, {}, {k2}>> }

\* The batches of the archive runs: well-formed, or lacking the last key, or
\* with disagreeing batch sizes.
PlainShapes(v) ==
    LET K == KeySet(v)
        k2 == Keys(v)[2]
    IN  { <<K, {}, {}>>, <<K \ {k2}, {}, {}>>, <<K, {k2}, {}>> }

\* store_episode(episode_batch) on a batch of one of the shapes; with marked,
\* the last transition of a well-formed ring batch may carry a done marker.
StoreWith(shapes, marked) ==
    \E n \in 0 .. (Capacity + 1) :
    \E sh \in shapes :
    \E D \in (IF marked /\ variant = "ring" /\ sh = <<KeySet(variant), {}, {}>>
                 /\ n >= 1 /\ n <= Capacity
              THEN {{}, {n}} ELSE {{}}) :
        /\ Allocated(StoreOutcome(variant, MakeBatch(sh[1], n, sh[2], D, nextStamp), sh[3]))
              => nextStamp + n <= MaxStamp + 1
        /\ store_episode("store", MakeBatch(sh[1], n, sh[2], D, nextStamp), sh[3])
        /\ nextStamp' = IF Allocated(call'.outcome) THEN nextStamp + n ELSE nextStamp
        /\ UNCHANGED <<variant, future_p, file>>

\* The driver stores a rollout batch (DDPG.store_episode, ddpg.py line 189).
Store == StoreWith(BatchShapes(variant), FALSE)

\* Number of record tags handed out in the archive runs.
MaxArchived == 2

\* The driver stores transitions that end episodes, to be dumped and loaded.
StoreDone ==
    /\ StoreWith(PlainShapes(variant), TRUE)
    /\ nextStamp' <= MaxArchived + 1

\* clear_buffer(), lines 60-62, with RingReplayBuffer._clear_buffer, line 139.
Clear ==
    /\ current_size' = 0
    /\ pointer' = IF variant = "ring" THEN 0 ELSE pointer
    /\ call' = Called("clear", "ok", <<>>, {})
    /\ run' = 0
    /\ UNCHANGED <<variant, future_p, buffers, file, nextStamp, runStart>>

\* dump_to_file(path), lines 30-34: the valid prefix of every field, saved
\* to a path the run has not written before (a run writes one archive).
Dump ==
    /\ file = NoFile
    /\ file' = IF current_size = 0 THEN file
               ELSE [k \in KeySet(variant) |->
                        [i \in 1 .. current_size |-> buffers[k][i - 1]]]
    /\ call' = Called("dump", "ok", <<>>, {})
    /\ UNCHANGED <<variant, future_p, buffers, current_size, pointer, nextStamp, run, runStart>>

\* num_demo=None
None == -1

\* The k-th smallest element of a set of numbers (np.nonzero is ascending).
RECURSIVE Kth(_, _)
Kth(S, k) ==
    LET lo == CHOOSE x \in S : \A y \in S : x <= y
    IN  IF k <= 1 THEN lo ELSE Kth(S \ {lo}, k - 1)

\* RingReplayBuffer.load_from_file, lines 88-90: the 0-based last_idx, given
\* the ascending 1-based positions dones of the nonzero done markers
\* (dones[-1] for num_demo None or 0).
LastIdx(dones, num_demo) ==
    IF num_demo = None \/ num_demo = 0
    THEN Kth(dones, Cardinality(dones)) - 1
    ELSE Kth(dones, num_demo) - 1

\* load_from_file(data_file, num_demo) of both classes, lines 85-95 and
\* 160-167: the archive is read, cut to num_demo episodes and handed to
\* store_episode; current_size and pointer are as the call finds them.
LoadWith(num_demo) ==
        /\ UNCHANGED <<variant, future_p, file, nextStamp>>
        /\ IF file = NoFile
           THEN /\ call' = Called("load", "IOError", <<>>, {})
                /\ UNCHANGED <<buffers, current_size, pointer, run, runStart>>
           ELSE IF variant = "ring"
           THEN \E G \in SUBSET {i \in 1 .. Len(file["done"]) : file["done"][i] = Uninit} :
                  LET dones == {i \in 1 .. Len(file["done"]) : file["done"][i] = 1} \cup G
                  IN  IF num_demo # None /\ num_demo > Cardinality(dones)
                      THEN /\ call' = Called("load", "AssertNumDemo", <<>>, {})
                           /\ UNCHANGED <<buffers, current_size, pointer, run, runStart>>
                      ELSE IF dones = {}
                      THEN /\ call' = Called("load", "IndexError", <<>>, {})
                           /\ UNCHANGED <<buffers, current_size, pointer, run, runStart>>
                      ELSE store_episode("load",
                               [k \in DOMAIN file |->
                                   SubSeq(file[k], 1, LastIdx(dones, num_demo) + 1)],
                               {})
           ELSE IF num_demo # None /\ \E k \in DOMAIN file : num_demo > Len(file[k])
           THEN /\ call' = Called("load", "AssertNumDemo", <<>>, {})
                /\ UNCHANGED <<buffers, current_size, pointer, run, runStart>>
           ELSE store_episode("load",
                    [k \in DOMAIN file |->
                        IF num_demo = None THEN file[k]
                        ELSE SubSeq(file[k], 1, num_demo)],
                    {})

\* The driver loads an archive (ddpg.py lines 172-178 and 238).
Load == \E num_demo \in {None} \cup (0 .. (Capacity + 1)) : LoadWith(num_demo)

\* ---------------------------------------------------------------- sampling
\* Step t of field f of the episode tagged e.
Step(f, e, t) == <<f, e, t>>

\* An array filled with the number x.
Filled(x) == <<"filled", x, 0>>

\* The fields of the dictionary ReplayBuffer.sample and sample_all build,
\* lines 180-186 and 202-206: the schema and the next-step fields.
DerivedKeys(v) ==
    KeySet(v) \cup {"o_2"}
        \cup (IF "ag" \in KeySet(v) THEN {"ag_2"} ELSE {})
        \cup (IF "g" \in KeySet(v) THEN {"g_2"} ELSE {})

\* The fields a sampling call of the class returns.
ReturnedKeys(v) == IF v = "ring" THEN KeySet(v) ELSE DerivedKeys(v)

\* The schema field a field of that dictionary is sliced from.
BaseKey(key) ==
    IF key = "o_2" THEN "o"
    ELSE IF key = "ag_2" THEN "ag"
    ELSE IF key = "g_2" THEN "g"
    ELSE key

\* Mutant of Lookup: o_2 and ag_2 are sliced from step 0 on, as o and ag are.
LookupSameStep(key, slot, t) == Step(BaseKey(key), buffers[BaseKey(key)][slot], t)

\* buffers[key][slot, t] in that dictionary: o_2 and ag_2 are o and ag from
\* step 1 on, g_2 is g.
Lookup(key, slot, t) ==
    IF key \in {"o_2", "ag_2"}
    THEN Step(BaseKey(key), buffers[BaseKey(key)][slot], t + 1)
    ELSE Step(BaseKey(key), buffers[BaseKey(key)][slot], t)

\* Mutant of CopiedShares: the slices are returned without .copy().
SlicedShares(keys) == keys

\* lines 103 and 176, [: self.current_size].copy(): the fields among keys
\* that share memory with self.buffers after the copy.
CopiedShares(keys) == {}

\* What sample_all returns: the valid prefix of every field; in the episode
\* buffers the episode and step dimensions are merged (line 189).
AllTransitions(v) ==
    IF v = "ring"
    THEN [key \in KeySet(v) |-> [i \in 1 .. current_size |-> buffers[key][i - 1]]]
    ELSE [key \in DerivedKeys(v) |->
             [j \in 1 .. (current_size * Horizon) |->
                 Lookup(key, (j - 1) \div Horizon, (j - 1) % Horizon)]]

\* sample_all(), lines 97-107 and 169-191: asserts a non-empty buffer and
\* returns copies of the valid prefix.
SampleAll ==
    /\ IF current_size = 0
       THEN call' = Called("sample_all", "AssertionError", <<>>, {})
       ELSE call' = Sampled("sample_all", <<>>, {}, AllTransitions(variant),
                            CopiedShares(ReturnedKeys(variant)), <<>>, {}, <<>>)
    /\ UNCHANGED <<variant, future_p, buffers, current_size, pointer, file, nextStamp, run, runStart>>

\* Largest batch_size asked of sample.
MaxBatch == 1

\* Mutant of DrawSlots: no more slots are drawn than records are stored.
DrawSlotsClamped(cs, batch_size) == [1 .. Min(cs, batch_size) -> 0 .. (cs - 1)]

\* np.random.randint(0, current_size, batch_size), lines 113, 257 and 286:
\* every array of slots it can return (none when current_size is 0 and
\* batch_size is not: the call raises).
DrawSlots(cs, batch_size) == [1 .. batch_size -> 0 .. (cs - 1)]

\* np.random.randint(self.T, size=batch_size), lines 258 and 287.
DrawSteps(batch_size) == [1 .. batch_size -> 0 .. (Horizon - 1)]

\* Mutant of HerIndexes: the draw is compared with <= in place of <, so that
\* a draw of 0.0 selects its position when future_p is 0.
HerIndexesInclusive(p, batch_size) == SUBSET (1 .. batch_size)

\* line 292, np.where(np.random.uniform(size=batch_size) < self.future_p):
\* the sets of positions that can be selected for relabelling.
HerIndexes(p, batch_size) ==
    IF p[1] = 0 THEN {{}} ELSE SUBSET (1 .. batch_size)

\* Mutant of FutureOffsets: the offset is rounded to the nearest integer.
FutureOffsetsRounded(t) == 0 .. (Horizon - t)

\* lines 293-294, (np.random.uniform() * (self.T - t)).astype(int): the
\* product lies in [0, T - t) and is truncated.
FutureOffsets(t) == 0 .. (Horizon - t - 1)

\* line 295: the future timesteps of the selected positions.
FutureTs(t_samples, her_indexes) ==
    {[i \in her_indexes |-> t_samples[i] + 1 + off[i]] :
        off \in {o \in [her_indexes -> 0 .. Horizon] :
                    \A i \in her_indexes : o[i] \in FutureOffsets(t_samples[i])}}

\* line 258 and 288: buffers[key][episode_idxs, t_samples].copy() for every
\* field of the dictionary.
Picked(v, episode_idxs, t_samples) ==
    [key \in DerivedKeys(v) |->
        [i \in DOMAIN episode_idxs |-> Lookup(key, episode_idxs[i], t_samples[i])]]

\* The reward function of the environment, reward_fun(ag_2, g_2, info) for
\* one record: a pure function nothing more is known of.
reward_fun(ag_2, g_2, info) == <<"reward", ag_2, g_2, info>>

\* line 311, key.replace("info_", "") on the info fields of the schema.
InfoName == [info_x |-> "x"]

\* lines 308-311: the info dictionary, for record i of the batch.
Info(transitions, i) ==
    LET infoKeys == DOMAIN transitions \cap DOMAIN InfoName
    IN  [n \in {InfoName[key] : key \in infoKeys} |->
            transitions[CHOOSE key \in infoKeys : InfoName[key] = n][i]]

\* Mutant of RewardGoal: the reward is computed on the achieved goal of the
\* sampled step instead of the next one.
RewardGoalSameStep(transitions, i) == transitions["ag"][i]

\* line 313: the achieved goal handed to reward_fun, for record i.
RewardGoal(transitions, i) == transitions["ag_2"][i]

\* Mutant of RelabelledKeys: only g is overwritten.
RelabelledOnlyG == {"g"}

\* lines 301-302: the fields overwritten with the future achieved goal.
RelabelledKeys == {"g", "g_2"}

\* Mutant of RelabelledQ: the cached value estimate is left as it was stored.
RelabelledQKept(q) == q

\* lines 304-305: the q entry of a relabelled record whose copied entry is
\* q, -100 * np.ones(...).
RelabelledQ(q) == Filled(-100)

\* HERReplayBuffer.sample_transitions, lines 288-317: the batch returned for
\* the episodes, steps, relabelled positions and future steps drawn.
HerTransitions(episode_idxs, t_samples, her_indexes, future_t) ==
    LET picked == Picked("her", episode_idxs, t_samples)
        future_ag == [i \in her_indexes |->
                         Step("ag", buffers["ag"][episode_idxs[i]], future_t[i])]
        relabelled ==
            [key \in DOMAIN picked |->
                [i \in DOMAIN picked[key] |->
                    IF i \in her_indexes /\ key \in RelabelledKeys THEN future_ag[i]
                    ELSE IF i \in her_indexes /\ key = "q" THEN RelabelledQ(picked[key][i])
                    ELSE picked[key][i]]]
    IN  [key \in DOMAIN relabelled \cup {"r"} |->
            IF key = "r"
            THEN [i \in DOMAIN episode_idxs |->
                     reward_fun(RewardGoal(relabelled, i), relabelled["g_2"][i],
                                Info(relabelled, i))]
            ELSE relabelled[key]]

\* sample(batch_size), lines 109-118 (ring) and 193-212 with the
\* sample_transitions of the class.  The ring's randint raises ValueError on
\* an empty range unless no sample is asked for; the episode buffers assert
\* a non-empty buffer first.
SampleWith(batch_size) ==
    /\ UNCHANGED <<variant, future_p, buffers, current_size, pointer, file, nextStamp, run, runStart>>
    /\ IF variant = "ring"
       THEN IF DrawSlots(current_size, batch_size) = {}
            THEN call' = Called("sample", "ValueError", <<>>, {batch_size})
            ELSE \E idxs \in DrawSlots(current_size, batch_size) :
                   IF Len(idxs) # batch_size
                   THEN call' = Called("sample", "ValueError", idxs, {batch_size})
                   ELSE call' = Sampled("sample", idxs, {batch_size},
                                    [key \in KeySet(variant) |->
                                        [i \in DOMAIN idxs |-> buffers[key][idxs[i]]]],
                                    {}, <<>>, {}, <<>>)
       ELSE IF current_size = 0
       THEN call' = Called("sample", "AssertionError", <<>>, {batch_size})
       ELSE \E episode_idxs \in DrawSlots(current_size, batch_size) :
            \E t_samples \in DrawSteps(batch_size) :
               IF Len(episode_idxs) # Len(t_samples)
               THEN call' = Called("sample", "IndexError", episode_idxs, {batch_size})
               ELSE IF variant = "her"
               THEN \E her_indexes \in HerIndexes(future_p, batch_size) :
                    \E future_t \in FutureTs(t_samples, her_indexes) :
                       call' = Sampled("sample", episode_idxs, {batch_size},
                                   HerTransitions(episode_idxs, t_samples, her_indexes, future_t),
                                   {}, t_samples, her_indexes, future_t)
               ELSE call' = Sampled("sample", episode_idxs, {batch_size},
                                Picked(variant, episode_idxs, t_samples),
                                {}, t_samples, {}, <<>>)

\* UniformReplayBuffer.sample_transitions, lines 257-265, on the arrays of
\* this buffer: every batch of batch_size records it can return.
UniformBatches(batch_size) ==
    {Picked(variant, d[1], d[2]) :
        d \in DrawSlots(current_size, batch_size) \X DrawSteps(batch_size)}

\* HERReplayBuffer.sample_transitions, lines 286-323, on the arrays of this
\* buffer: every batch of batch_size records it can return.
HerBatches(batch_size) ==
    UNION {UNION {{HerTransitions(d[1], d[2], h, f) : f \in FutureTs(d[2], h)} :
                     h \in HerIndexes(future_p, batch_size)} :
              d \in DrawSlots(current_size, batch_size) \X DrawSteps(batch_size)}

\* sample(batch_size) for the batch sizes up to maxb.
SampleUpTo(maxb) == \E batch_size \in 0 .. maxb : SampleWith(batch_size)

\* The driver samples a training batch (ddpg.py lines 197-203).
Sample == SampleUpTo(MaxBatch)

\* What the caller writes into an array it was returned.
Scribble == Uninit - 1

\* The caller holds the batch the last call returned and has not used it yet.
Pending == call.op \in {"sample", "sample_all"} /\ call.outcome = "ok"

\* The caller uses the batch it was returned and lets go of it (the training
\* step of the driver), before it calls the buffer again.
Consume ==
    /\ Pending
    /\ call' = Called("consume", "ok", <<>>, {})
    /\ UNCHANGED <<variant, future_p, buffers, current_size, pointer, file, nextStamp, run, runStart>>

\* The caller changes a field of the batch the last sampling call returned,
\* in place; the change is seen in self.buffers when the field shares their
\* memory.
Mutate ==
    /\ Pending
    /\ \E key \in DOMAIN call.ret :
          /\ Len(call.ret[key]) > 0
          /\ buffers' = IF key \in call.views
                        THEN [buffers EXCEPT ![BaseKey(key)] =
                                 [s \in Slots |-> IF s < current_size THEN Scribble ELSE @[s]]]
                        ELSE buffers
    /\ call' = Called("mutate", "ok", <<>>, {})
    /\ UNCHANGED <<variant, future_p, current_size, pointer, file, nextStamp, run, runStart>>

\* Every call of the driver API, on the batches of the archive runs; a batch
\* returned by a sampling call is used before the next call.
Next ==
    \/ ~Pending /\ StoreDone
    \/ ~Pending /\ Clear
    \/ ~Pending /\ Dump
    \/ ~Pending /\ Load
    \/ ~Pending /\ SampleAll
    \/ ~Pending /\ Sample
    \/ Consume

Spec == Init /\ [][Next]_vars

\* The write path, on every shape of batch.
NextStore == Store \/ Clear

SpecStore == Init /\ [][NextStore]_vars

\* Largest batch_size asked of the buffers that do not relabel, in the
\* sampling runs (the hindsight buffer is asked for up to MaxBatch records).
MaxDraw == 2

\* The driver samples training batches of the sizes of the sampling runs.
SampleMany == SampleUpTo(IF variant = "her" THEN MaxBatch ELSE MaxDraw)

\* The sampling runs: a buffer of any of the classes is filled, sampled and
\* cleared, and the caller changes the batches it is returned.
NextSample ==
    \/ ~Pending /\ StoreDone
    \/ ~Pending /\ Clear
    \/ ~Pending /\ SampleMany
    \/ ~Pending /\ SampleAll
    \/ Consume
    \/ Mutate

InitSample == Constructed({"ring", "episode", "her"})

SpecSample == InitSample /\ [][NextSample]_vars

\* ------------------------------------------- DDPG._create_replay_buffer
\* self.replay_buffer before _create_replay_buffer has assigned it.
NoBuffer == "unset"

\* replay_strategy is None
NoStrategy == "None"

\* The values of replay_strategy["strategy"] a configuration may carry.
Strategies == {NoStrategy, "her", "none", "prioritized"}

\* Mutant of ReplayClass: the hindsight branch does not assert self.fix_T.
ReplayClassUnchecked(strategy, fix_T) ==
    IF strategy = NoStrategy THEN NoBuffer
    ELSE IF strategy = "her" THEN "her"
    ELSE IF strategy = "none" /\ fix_T THEN "episode"
    ELSE IF strategy = "none" /\ ~fix_T THEN "ring"
    ELSE "AssertionError"

\* ddpg.py lines 336-360: the class of the buffer _create_replay_buffer
\* constructs for a strategy and self.fix_T, NoBuffer when it constructs
\* none, "AssertionError" when one of its assertions fails.
ReplayClass(strategy, fix_T) ==
    IF strategy = NoStrategy THEN NoBuffer
    ELSE IF strategy = "her" THEN (IF fix_T THEN "her" ELSE "AssertionError")
    ELSE IF strategy = "none" /\ fix_T THEN "episode"
    ELSE IF strategy = "none" /\ ~fix_T THEN "ring"
    ELSE "AssertionError"

\* DDPG.__init__ calls _create_replay_buffer (ddpg.py line 143) with a
\* configuration <<strategy, fix_T>> and, for the hindsight buffer, the k of
\* replay_strategy["args"].
CreateReplayBuffer ==
    /\ variant = NoBuffer
    /\ \E strategy \in Strategies : \E fix_T \in BOOLEAN : \E k \in 0 .. MaxK :
          LET class == ReplayClass(strategy, fix_T)
          IN  /\ variant' = IF class = "AssertionError" THEN NoBuffer ELSE class
              /\ future_p' = IF class = "her" THEN FutureP(k) ELSE NoFutureP
              /\ buffers' = IF class \in {"AssertionError", NoBuffer}
                            THEN buffers
                            ELSE [key \in KeySet(class) |-> [sl \in Slots |-> Uninit]]
              /\ call' = [Called("create",
                                 IF class = "AssertionError" THEN class ELSE "ok",
                                 <<>>, {})
                             EXCEPT !.config = <<strategy, fix_T>>]
    /\ UNCHANGED <<current_size, pointer, file, nextStamp, run, runStart>>

\* The program before a DDPG object has been constructed.
InitCreate ==
    /\ variant = NoBuffer
    /\ future_p = NoFutureP
    /\ buffers = [key \in {} |-> [sl \in Slots |-> Uninit]]
    /\ current_size = 0
    /\ pointer = 0
    /\ file = NoFile
    /\ call = NoCall
    /\ nextStamp = 1
    /\ run = 0
    /\ runStart = 1

\* A buffer has been constructed.
Created == variant # NoBuffer

\* The configured runs: a DDPG object is constructed from a configuration,
\* and the buffer it created, if any, is filled, sampled and cleared.
NextCreate ==
    \/ CreateReplayBuffer
    \/ Created /\ ~Pending /\ StoreDone
    \/ Created /\ ~Pending /\ Clear
    \/ Created /\ ~Pending /\ Sample
    \/ Created /\ ~Pending /\ SampleAll
    \/ Consume

SpecCreate == InitCreate /\ [][NextCreate]_vars

\* ------------------------------------------------------------------ claims
\* The last call was a store_episode that got as far as _get_storage_idx.
StoreAllocated == call.op = "store" /\ Allocated(call.outcome)

\* The last call was a store_episode that returned.
StoreSucceeded == call.op = "store" /\ call.outcome = "ok"

\* Tag of the first record of the batch the last allocating store pushed.
FirstTag == nextStamp - Len(call.idxs)

\* C1: after every successful store of a batch of b records, 1 <= b <= capacity,
\* current_size equals min(capacity, current_size before the call + b), for
\* the ring buffer and the episode buffer.
C1_SizeAfterStore ==
    StoreSucceeded =>
        \E b \in 1 .. Capacity :
            /\ call.sizes = {b}
            /\ Len(call.idxs) = b
            /\ current_size = Min(Capacity, call.size0 + b)

\* C1 witness: a store that succeeded on a non-empty buffer with more records
\* than the free slots, so that the minimum is the capacity.
C1_Witness ==
    /\ StoreSucceeded
    /\ call.size0 > 0
    /\ call.size0 + Len(call.idxs) > Capacity
    /\ current_size = Capacity

\* C2: in every state reachable by store, sample, sample_all, clear, dump and
\* load calls, successful or failing, 0 <= current_size <= capacity.
C2_SizeWithinCapacity == current_size >= 0 /\ current_size <= Capacity

\* C2 witness: a load that stored its archive into a buffer that was full.
C2_Witness ==
    /\ call.op = "load"
    /\ call.outcome = "ok"
    /\ call.size0 = Capacity
    /\ current_size = Capacity

\* C3: ring buffer: after capacity + m single transitions (m < capacity) are
\* written into an empty buffer, the buffer holds exactly the last capacity
\* transitions, in insertion order when read circularly from offset m.
C3_RingHoldsLastCapacity ==
    (variant = "ring" /\ run >= Capacity /\ run < 2 * Capacity) =>
        LET m == run - Capacity
        IN  \A j \in 0 .. (Capacity - 1) :
                buffers["u"][(m + j) % Capacity] = runStart + m + j

\* C4: ring buffer: a store of inc records with write pointer p writes to exactly
\* the indices (p + i) mod capacity, i = 0 .. inc-1, in that order.
C4_RingIndices ==
    (variant = "ring" /\ StoreAllocated) =>
        /\ call.sizes = {Len(call.idxs)}
        /\ \A i \in 1 .. Len(call.idxs) :
              call.idxs[i] = (call.ptr0 + i - 1) % Capacity
        /\ call.outcome = "ok" =>
              \A i \in 1 .. Len(call.idxs) :
                  buffers["u"][(call.ptr0 + i - 1) % Capacity] = FirstTag + i - 1

\* C4 witness: a successful store whose range wraps: a head segment up to the
\* capacity and a tail segment from zero, both non-empty.
C4_Witness ==
    /\ variant = "ring"
    /\ StoreSucceeded
    /\ call.ptr0 > 0
    /\ call.ptr0 < Capacity
    /\ call.ptr0 + Len(call.idxs) > Capacity

\* C5 as stated: ring buffer: after every store of inc records from pointer p
\* the pointer equals (p + inc) mod capacity, so 0 <= write_pointer < capacity
\* in every reachable state.
C5_PointerBelowCapacity ==
    variant = "ring" =>
        /\ pointer >= 0
        /\ pointer < Capacity
        /\ StoreAllocated => pointer = (call.ptr0 + Len(call.idxs)) % Capacity

\* C5 amended: ring buffer: a store of inc records from pointer p that reaches
\* the index allocation leaves the pointer at p + inc when p + inc <= capacity
\* and at p + inc - capacity otherwise, a rejected store leaves it at p;
\* so the pointer is congruent to p + inc modulo capacity and
\* 0 <= write_pointer <= capacity in every reachable state, the pointer being
\* equal to capacity after a store that ends on the last slot.
C5_PointerUpToCapacity ==
    variant = "ring" =>
        /\ pointer >= 0
        /\ pointer <= Capacity
        /\ StoreAllocated =>
              /\ pointer = IF call.ptr0 + Len(call.idxs) <= Capacity
                           THEN call.ptr0 + Len(call.idxs)
                           ELSE call.ptr0 + Len(call.idxs) - Capacity
              /\ pointer % Capacity = (call.ptr0 + Len(call.idxs)) % Capacity
              /\ pointer > 0
        /\ (call.op = "store" /\ ~Allocated(call.outcome)) => pointer = call.ptr0

\* C5 witness: a successful store that ended on the last slot and left the
\* pointer equal to the capacity.
C5_Witness ==
    /\ variant = "ring"
    /\ StoreSucceeded
    /\ pointer = Capacity

\* C6: a store call that raises leaves every field array, current_size and the
\* ring write pointer exactly as they were before the call.
C6_NoPartialWrites ==
    [][(call'.op = "store" /\ call'.outcome # "ok")
          => UNCHANGED <<buffers, current_size, pointer>>]_vars

\* C7: store fails with the batch-size assertion whenever the fields of the
\* pushed batch do not all share one leading dimension, and it fails before
\* any destination index is allocated.
C7_BatchSizesChecked ==
    (call.op = "store" /\ Cardinality(call.sizes) > 1) =>
        /\ call.outcome = "AssertBatchSizes"
        /\ call.idxs = <<>>
        /\ pointer = call.ptr0
        /\ current_size = call.size0

\* C7 witness: a batch with disagreeing leading dimensions was pushed onto a
\* buffer that holds records.
C7_Witness ==
    /\ call.op = "store"
    /\ Cardinality(call.sizes) > 1
    /\ call.outcome = "AssertBatchSizes"
    /\ current_size > 0

\* C8: a store whose batch size is larger than the capacity, or zero, raises
\* and leaves current_size, the write pointer and the field arrays unchanged,
\* for both buffer variants.
C8_BadSizeRejected ==
    [][(call'.op = "store" /\ call'.sizes \in {{0}} \cup {{b} : b \in (Capacity + 1) .. (Capacity + 2)})
          => /\ call'.outcome = "AssertIncrement"
             /\ call'.idxs = <<>>
             /\ UNCHANGED <<buffers, current_size, pointer>>]_vars

\* C8 witness: a batch of capacity + 1 records was pushed onto a buffer that
\* holds records, and was rejected.
C8_Witness ==
    /\ call.op = "store"
    /\ call.sizes = {Capacity + 1}
    /\ call.outcome = "AssertIncrement"
    /\ current_size > 0

\* C9: episode buffer: while current_size < capacity, stores never overwrite an
\* existing episode: every episode stored earlier stays at its slot until
\* current_size reaches capacity.
C9_NoOverwriteBelowCapacity ==
    [][(variant = "episode" /\ call'.op = "store" /\ current_size' < Capacity)
          => \A k \in KeySet(variant) : \A s \in 0 .. (current_size - 1) :
                 buffers'[k][s] = buffers[k][s]]_vars

\* C10: episode buffer: whenever current_size + inc <= capacity, a store of inc
\* episodes writes them to exactly the slots current_size, current_size + 1,
\* ..., current_size + inc - 1, in batch order.
C10_SequentialSlots ==
    (variant = "episode" /\ StoreAllocated
        /\ call.size0 + Len(call.idxs) <= Capacity) =>
        /\ call.sizes = {Len(call.idxs)}
        /\ \A i \in 1 .. Len(call.idxs) : call.idxs[i] = call.size0 + i - 1
        /\ call.outcome = "ok" =>
              \A k \in KeySet(variant) : \A i \in 1 .. Len(call.idxs) :
                  buffers[k][call.size0 + i - 1] = FirstTag + i - 1

\* C10 witness: a successful store of episodes into the free slots behind an
\* episode stored before.
C10_Witness ==
    /\ variant = "episode"
    /\ StoreSucceeded
    /\ call.size0 > 0
    /\ Len(call.idxs) > 0
    /\ call.size0 + Len(call.idxs) <= Capacity

\* C11: episode buffer: when 0 < current_size < capacity and current_size + inc
\* > capacity, the first capacity - current_size episodes of the batch go to
\* the free slots current_size .. capacity-1 in order, and each of the other
\* inc - (capacity - current_size) episodes goes to an index in
\* [0, current_size before the call).
C11_OverflowIntoFilledSlots ==
    (variant = "episode" /\ StoreAllocated
        /\ call.size0 > 0 /\ call.size0 < Capacity
        /\ call.size0 + Len(call.idxs) > Capacity) =>
        LET free == Capacity - call.size0
        IN  /\ call.sizes = {Len(call.idxs)}
            /\ \A i \in 1 .. free : call.idxs[i] = call.size0 + i - 1
            /\ \A i \in (free + 1) .. Len(call.idxs) :
                  call.idxs[i] >= 0 /\ call.idxs[i] < call.size0
            /\ call.outcome = "ok" =>
                  \A k \in KeySet(variant) : \A i \in 1 .. free :
                      buffers[k][call.size0 + i - 1] = FirstTag + i - 1

\* C11 witness: a successful store of more episodes than the free slots of a
\* partly filled buffer, whose last episode replaced one stored before.
C11_Witness ==
    /\ variant = "episode"
    /\ StoreSucceeded
    /\ call.size0 > 0
    /\ call.size0 < Capacity
    /\ call.size0 + Len(call.idxs) > Capacity
    /\ call.idxs[Len(call.idxs)] < call.size0
    /\ current_size = Capacity

\* C12: load resets current_size and the internal pointers before storing:
\* after a load on a buffer in any prior state, current_size equals the
\* number of loaded records and the loaded records occupy slots 0 .. n-1,
\* independent of the prior content.
C12_LoadResets ==
    (call.op = "load" /\ call.outcome = "ok") =>
        /\ current_size = Len(call.idxs)
        /\ \A i \in 1 .. Len(call.idxs) :
              /\ call.idxs[i] = i - 1
              /\ \A k \in KeySet(variant) : buffers[k][i - 1] = file[k][i]

\* The number of records of the archive (0 when no archive was written).
DumpedSize == IF file = NoFile THEN 0 ELSE Len(file[Keys(variant)[1]])

\* C13: round trip: for every reachable buffer state (empty, partly filled,
\* full, a ring buffer whose last transition carries no done marker), dump
\* followed by load into an empty buffer of the same schema and capacity gives
\* the current_size of the dumped buffer and its contents in slots
\* 0 .. current_size-1.  The archive is the valid prefix at the dump; the
\* load is load(path) with the default num_demo, on the buffer after clear or,
\* for the dump of an empty buffer, right after the dump.
C13_RoundTrip ==
    [][(LoadWith(None) /\ current_size = 0 /\ pointer = 0
           /\ (file # NoFile \/ call.op = "dump"))
          => /\ call'.outcome = "ok"
             /\ current_size' = DumpedSize
             /\ \A k \in KeySet(variant) : \A i \in 1 .. DumpedSize :
                    buffers'[k][i - 1] = file[k][i]]_vars

\* C14: clear() sets current_size (and the ring's pointer) to zero and leaves
\* the capacity and the arrays as they are; from the state it leaves, sampling
\* fails and the state stays as it is until a store allocates, and that first
\* store (a load stores too) writes to slot 0 onward.
C14_ClearEmpties ==
    [][/\ call'.op = "clear" =>
             /\ current_size' = 0
             /\ pointer' = 0
             /\ buffers' = buffers
       /\ (current_size = 0 /\ pointer = 0) =>
             /\ call'.op \in {"sample", "sample_all"} => call'.outcome # "ok"
             /\ (call'.op \in {"store", "load"} /\ Allocated(call'.outcome)) =>
                   /\ call'.idxs = Arange(0, Len(call'.idxs))
                   /\ Len(call'.idxs) > 0
                   /\ (call'.op = "store" /\ call'.outcome = "ok") =>
                         /\ current_size' = Len(call'.idxs)
                         /\ \A i \in 1 .. Len(call'.idxs) :
                               buffers'["u"][i - 1] = nextStamp + i - 1
             /\ ~(call'.op \in {"store", "load"} /\ Allocated(call'.outcome)) =>
                   /\ current_size' = 0
                   /\ pointer' = 0
                   /\ buffers' = buffers]_vars

\* The last call was a sample that returned a batch.
SampleReturned == call.op = "sample" /\ call.outcome = "ok"

\* C15: whenever current_size is 0, sample_all() and sample(batch_size) raise
\* an empty-buffer error, on every variant, and leave the buffer as it is.
C15_EmptySamplingRaises ==
    [][(call'.op \in {"sample", "sample_all"} /\ current_size = 0)
          => /\ call'.outcome \in {"AssertionError", "ValueError"}
             /\ UNCHANGED <<buffers, current_size, pointer>>]_vars

\* C16: once current_size > 0, sample(batch_size) never fails, for any
\* batch_size >= 1 (larger than the number of stored records too), and
\* returns every field with a leading dimension of exactly batch_size.
C16_SampleNeverFails ==
    (call.op = "sample" /\ call.size0 > 0 /\ \E b \in call.sizes : b >= 1) =>
        /\ call.outcome = "ok"
        /\ DOMAIN call.ret = ReturnedKeys(variant)
        /\ \A key \in DOMAIN call.ret : call.sizes = {Len(call.ret[key])}

\* C16 witness: a sample of more records than the buffer holds.
C16_Witness ==
    /\ SampleReturned
    /\ call.size0 > 0
    /\ Len(call.idxs) > call.size0
    /\ \A key \in ReturnedKeys(variant) : Len(call.ret[key]) > call.size0

\* C17: sample and sample_all are read-only and return copies: they leave
\* current_size, the pointer and the arrays as they are, and a later change
\* of a returned batch by the caller changes neither the buffer nor what a
\* later sample_all returns.
C17_SamplingReadOnly ==
    [][/\ call'.op \in {"sample", "sample_all"} =>
             /\ UNCHANGED <<buffers, current_size, pointer>>
             /\ call'.views = {}
       /\ call'.op = "mutate" => UNCHANGED <<buffers, current_size, pointer>>
       /\ (call'.op = "sample_all" /\ call'.outcome = "ok") =>
             /\ Len(call'.ret["u"]) > 0
             /\ \A i \in 1 .. Len(call'.ret["u"]) :
                   IF variant = "ring"
                   THEN call'.ret["u"][i] = buffers["u"][i - 1]
                   ELSE call'.ret["u"][i] =
                            Step("u", buffers["u"][(i - 1) \div Horizon], (i - 1) % Horizon)]_vars

\* C17 witness: the caller has changed a batch returned from a buffer that
\* holds records.
C17_Witness ==
    /\ call.op = "mutate"
    /\ current_size > 0
    /\ \A s \in 0 .. (current_size - 1) : buffers["u"][s] > 0

\* C18: hindsight sampler: for every relabelled record, sampled at step t of
\* episode e, the substituted goal is the achieved goal of the same episode
\* at a step t' with t < t' <= T, never beyond the horizon T, for every t in
\* [0, T).
C18_FutureWithinEpisode ==
    (variant = "her" /\ SampleReturned) =>
        \A i \in call.her_indexes :
            /\ call.t_samples[i] \in 0 .. (Horizon - 1)
            /\ call.future_t[i] > call.t_samples[i]
            /\ call.future_t[i] <= Horizon
            /\ call.ret["g"][i] =
                  Step("ag", buffers["ag"][call.idxs[i]], call.future_t[i])

\* C18 witness: a record sampled at the last step T - 1 was relabelled, with
\* the goal achieved at step T.
C18_Witness ==
    /\ variant = "her"
    /\ SampleReturned
    /\ \E i \in call.her_indexes :
          /\ call.t_samples[i] = Horizon - 1
          /\ call.future_t[i] = Horizon
          /\ call.ret["g"][i] = Step("ag", buffers["ag"][call.idxs[i]], Horizon)

\* C19: hindsight sampler: for every returned record, relabelled or not, the
\* returned r is reward_fn(ag_2, g_2, info) on the returned fields of that
\* record; the stored reward is never copied through.
C19_RewardRecomputed ==
    (variant = "her" /\ SampleReturned) =>
        \A i \in 1 .. Len(call.idxs) :
            /\ call.ret["r"][i] =
                  reward_fun(call.ret["ag_2"][i], call.ret["g_2"][i],
                             [x |-> call.ret["info_x"][i]])
            /\ call.ret["r"][i][1] # "r"

\* C19 witness: a buffer that relabels returned a record it did not relabel,
\* with the reward computed on the goal stored for it.
C19_Witness ==
    /\ variant = "her"
    /\ future_p[1] > 0
    /\ SampleReturned
    /\ \E j \in 1 .. Len(call.idxs) :
          /\ j \notin call.her_indexes
          /\ call.ret["g_2"][j] = Step("g", buffers["g"][call.idxs[j]], call.t_samples[j])
          /\ call.ret["r"][j][3] = call.ret["g_2"][j]

\* C20: hindsight sampler: every relabelled record has g = g_2 = the chosen
\* future achieved goal; every record not selected has g and g_2 equal to the
\* goal stored for its episode and step; relabelling never changes the goals
\* stored in the buffer.
C20_GoalsConsistent ==
    [][(variant = "her" /\ call'.op = "sample" /\ call'.outcome = "ok") =>
          /\ buffers' = buffers
          /\ \A i \in 1 .. Len(call'.idxs) :
                LET goal == IF i \in call'.her_indexes
                            THEN Step("ag", buffers["ag"][call'.idxs[i]], call'.future_t[i])
                            ELSE Step("g", buffers["g"][call'.idxs[i]], call'.t_samples[i])
                IN  /\ call'.ret["g"][i] = goal
                    /\ call'.ret["g_2"][i] = goal]_vars

\* C20 witness: a record of the second episode stored, sampled at step 0, was
\* relabelled with the goal that episode achieved at the horizon.
C20_Witness ==
    /\ variant = "her"
    /\ SampleReturned
    /\ \E i \in call.her_indexes :
          /\ call.idxs[i] > 0
          /\ call.t_samples[i] = 0
          /\ call.future_t[i] = Horizon
          /\ call.ret["g"][i] = Step("ag", buffers["ag"][call.idxs[i]], Horizon)
          /\ call.ret["g_2"][i] = call.ret["g"][i]
          /\ buffers["g"][call.idxs[i]] > 0

\* A batch without one of its fields.
Without(batch, key) == [k \in DOMAIN batch \ {key} |-> batch[k]]

\* C21 as stated: with relabel ratio k = 0 no record is ever relabelled, and
\* the set of batches the hindsight sampler can return for a buffer state and
\* a batch_size is the set the uniform sampler can return, in every field,
\* r included.
C21_SameAsUniform ==
    (variant = "her" /\ future_p = FutureP(0)) =>
        /\ SampleReturned =>
              /\ call.her_indexes = {}
              /\ call.ret \in UniformBatches(Len(call.idxs))
        /\ current_size > 0 =>
              \A b \in 0 .. MaxBatch : HerBatches(b) = UniformBatches(b)

\* C21 amended: with relabel ratio k = 0 no record is ever relabelled, and
\* the set of batches the hindsight sampler can return for a buffer state and
\* a batch_size is the set the uniform sampler can return in every field
\* other than r; the r of every record is reward_fun computed on the next
\* achieved goal, the goal and the info stored for its episode and step, not
\* the stored r.
C21_SameAsUniformButReward ==
    (variant = "her" /\ future_p = FutureP(0)) =>
        /\ SampleReturned =>
              /\ call.her_indexes = {}
              /\ Without(call.ret, "r")
                    \in {Without(u, "r") : u \in UniformBatches(Len(call.idxs))}
              /\ \A i \in 1 .. Len(call.idxs) :
                    call.ret["r"][i] =
                        reward_fun(Lookup("ag_2", call.idxs[i], call.t_samples[i]),
                                   Lookup("g", call.idxs[i], call.t_samples[i]),
                                   [x |-> Lookup("info_x", call.idxs[i], call.t_samples[i])])
        /\ current_size > 0 =>
              \A b \in 0 .. MaxBatch :
                  {Without(h, "r") : h \in HerBatches(b)}
                      = {Without(u, "r") : u \in UniformBatches(b)}

\* C21 witness: a hindsight buffer constructed with k = 0 and filled to its
\* capacity returned a record of the episode in its last slot.
C21_Witness ==
    /\ variant = "her"
    /\ future_p = FutureP(0)
    /\ SampleReturned
    /\ current_size = Capacity
    /\ \E i \in 1 .. Len(call.idxs) :
          /\ call.idxs[i] = Capacity - 1
          /\ call.ret["g"][i] = Step("g", buffers["g"][Capacity - 1], call.t_samples[i])
          /\ call.ret["r"][i][1] = "reward"

\* C22: episode buffer sample: every returned record i corresponds to one
\* drawn (episode e, timestep t) used for all fields, with o[i] = stored
\* o[e, t], o_2[i] = stored o[e, t+1], ag_2[i] = stored ag[e, t+1],
\* g_2[i] = stored g[e, t], u[i] = stored u[e, t].
C22_FieldsOfOneDraw ==
    (variant = "episode" /\ SampleReturned) =>
        /\ Len(call.t_samples) = Len(call.idxs)
        /\ \A i \in 1 .. Len(call.idxs) :
              LET e == call.idxs[i]
                  t == call.t_samples[i]
              IN  /\ e \in 0 .. (call.size0 - 1)
                  /\ t \in 0 .. (Horizon - 1)
                  /\ call.ret["o"][i] = Step("o", buffers["o"][e], t)
                  /\ call.ret["o_2"][i] = Step("o", buffers["o"][e], t + 1)
                  /\ call.ret["ag"][i] = Step("ag", buffers["ag"][e], t)
                  /\ call.ret["ag_2"][i] = Step("ag", buffers["ag"][e], t + 1)
                  /\ call.ret["g"][i] = Step("g", buffers["g"][e], t)
                  /\ call.ret["g_2"][i] = Step("g", buffers["g"][e], t)
                  /\ call.ret["u"][i] = Step("u", buffers["u"][e], t)

\* C22 witness: a batch of two records drawn from different episodes at
\* different steps, one of them the last step, whose o_2 is the observation
\* at the horizon.
C22_Witness ==
    /\ variant = "episode"
    /\ SampleReturned
    /\ Len(call.idxs) = 2
    /\ call.idxs[1] # call.idxs[2]
    /\ call.t_samples[1] # call.t_samples[2]
    /\ buffers["o"][call.idxs[1]] # buffers["o"][call.idxs[2]]
    /\ \E i \in 1 .. 2 :
          /\ call.t_samples[i] = Horizon - 1
          /\ call.ret["o_2"][i] = Step("o", buffers["o"][call.idxs[i]], Horizon)

\* C23: after any sequence of store, clear and load calls, every record
\* returned by sample is drawn from an index in [0, current_size) and, in the
\* episode buffers, a timestep in [0, T), and no field of the slot it is
\* drawn from is uninitialised: the slot was written by a store.
C23_SampledSlotsWritten ==
    SampleReturned =>
        \A i \in 1 .. Len(call.idxs) :
            /\ call.idxs[i] \in 0 .. (call.size0 - 1)
            /\ variant # "ring" => call.t_samples[i] \in 0 .. (Horizon - 1)
            /\ \A k \in KeySet(variant) :
                  /\ buffers[k][call.idxs[i]] # Uninit
                  /\ variant = "ring" => call.ret[k][i] # Uninit

\* The positions of the nonzero done markers of the archive.
FileDones == {i \in 1 .. Len(file["done"]) : file["done"][i] = 1}

\* The archive of a ring buffer, every done marker of which was written.
RingFile ==
    /\ variant = "ring"
    /\ file # NoFile
    /\ \A i \in 1 .. Len(file["done"]) : file["done"][i] # Uninit

\* C24: ring buffer: load_from_file with num_demo = n stores exactly the
\* transitions up to and including the n-th nonzero done marker (the first n
\* completed episodes, none for n = 0) for every n from 0 to the number of
\* completed episodes of the file, and fails without storing anything when n
\* exceeds that number.
C24_LoadFirstEpisodes ==
    [][\A n \in 0 .. (Capacity + 1) :
          (RingFile /\ LoadWith(n)) =>
              IF n <= Cardinality(FileDones)
              THEN LET cnt == IF n = 0 THEN 0 ELSE Kth(FileDones, n)
                   IN  /\ n >= 1 => call'.outcome = "ok"
                       /\ Len(call'.idxs) = cnt
                       /\ \A k \in KeySet(variant) : \A i \in 1 .. cnt :
                              buffers'[k][call'.idxs[i]] = file[k][i]
                       /\ \A k \in KeySet(variant) : \A s \in Slots :
                              (\A i \in 1 .. cnt : call'.idxs[i] # s)
                                 => buffers'[k][s] = buffers[k][s]
              ELSE /\ call'.outcome = "AssertNumDemo"
                   /\ UNCHANGED <<buffers, current_size, pointer>>]_vars

\* C25: store rejects a batch that does not conform to the schema fixed at
\* construction: a batch with a field name the schema does not know, or
\* without a field of the schema, raises an error and nothing of it is
\* stored.
C25_SchemaEnforced ==
    [][\A sh \in BatchShapes(variant) :
          (sh[1] # KeySet(variant) /\ sh[1] # {} /\ StoreWith({sh}, FALSE)) =>
              /\ call'.outcome # "ok"
              /\ UNCHANGED <<buffers, current_size>>]_vars

\* C26: requesting hindsight (HER) replay when the horizon is not fixed
\* fails with an assertion error at construction and constructs no buffer;
\* a hindsight buffer only ever comes from a construction with fix_T set, so
\* none exists without a known horizon T.
C26_HerNeedsFixedHorizon ==
    [][/\ (call'.op = "create" /\ call'.config = <<"her", FALSE>>) =>
             /\ call'.outcome = "AssertionError"
             /\ variant' = NoBuffer
       /\ variant' = "her" =>
             \/ variant = "her"
             \/ call'.op = "create" /\ call'.config = <<"her", TRUE>>]_vars

\* C26 witness: a configuration that asks for hindsight replay without a
\* fixed horizon was rejected, and no buffer exists.
C26_Witness ==
    /\ call.op = "create"
    /\ call.config = <<"her", FALSE>>
    /\ call.outcome = "AssertionError"
    /\ variant = NoBuffer

\* C27: hindsight sampler, schema with a field "q": the q entry of every
\* relabelled record of the returned batch is the sentinel -100, and the q
\* entry of every other record is the value stored for its episode and
\* timestep.
C27_SentinelOnRelabelled ==
    (variant = "her" /\ SampleReturned) =>
        /\ "q" \in DOMAIN call.ret
        /\ \A i \in 1 .. Len(call.idxs) :
              call.ret["q"][i] =
                  IF i \in call.her_indexes
                  THEN Filled(-100)
                  ELSE Step("q", buffers["q"][call.idxs[i]], call.t_samples[i])

\* C27 witness: a relabelled record of a stored episode came back with the
\* sentinel in place of the value estimate stored for it.
C27_Witness ==
    /\ variant = "her"
    /\ SampleReturned
    /\ \E i \in call.her_indexes :
          /\ buffers["q"][call.idxs[i]] > 0
          /\ call.ret["q"][i] = Filled(-100)
          /\ call.ret["q"][i] # Step("q", buffers["q"][call.idxs[i]], call.t_samples[i])
          /\ call.ret["u"][i] = Step("u", buffers["u"][call.idxs[i]], call.t_samples[i])

\* C28: under any sequence of store, load, sample, sample_all and dump calls
\* without clear, current_size never decreases, and once the buffer is full
\* (current_size = capacity) it stays full until clear is called.
C28_SizeGrowsUntilClear ==
    [][call'.op # "clear" =>
          /\ current_size' >= current_size
          /\ current_size = Capacity => current_size' = Capacity]_vars

\* C28 witness: records were stored into a full buffer, which is still full.
C28_Witness ==
    /\ call.op \in {"store", "load"}
    /\ call.outcome = "ok"
    /\ Len(call.idxs) >= 1
    /\ call.size0 = Capacity
    /\ current_size = Capacity
    /\ \E k \in KeySet(variant) : \E i \in 1 .. Len(call.idxs) :
          buffers[k][call.idxs[i]] # Uninit

\* C29: immediately after a successful store of a batch of b records,
\* 1 <= b <= capacity, every one of the b records is present in a valid slot
\* (below current_size) of the buffer, for the ring buffer and the episode
\* buffer in every fill state, a full episode buffer that receives b > 1
\* episodes included.
C29_StoredRecordsPresent ==
    StoreSucceeded =>
        \A i \in 1 .. Len(call.idxs) :
            \E s \in 0 .. (current_size - 1) :
                \A k \in KeySet(variant) \ {"done"} :
                    buffers[k][s] = FirstTag + i - 1

\* C30: a successful store of b records changes at most b slots, the indices
\* returned by the index allocation of the buffer's class, each of which
\* holds a record of the batch afterwards; every other slot of every field
\* array keeps its previous contents.
C30_StoreTouchesAllocatedOnly ==
    [][(call'.op = "store" /\ call'.outcome = "ok") =>
          LET written == {call'.idxs[i] : i \in 1 .. Len(call'.idxs)}
          IN  /\ call'.sizes = {Len(call'.idxs)}
              /\ call'.idxs \in GetStorageIdx(variant, current_size, pointer,
                                               Len(call'.idxs))
              /\ Cardinality(written) <= Len(call'.idxs)
              /\ \A k \in KeySet(variant) : \A s \in Slots :
                    IF s \in written
                    THEN \E i \in 1 .. Len(call'.idxs) :
                            /\ call'.idxs[i] = s
                            /\ k # "done" => buffers'[k][s] = nextStamp + i - 1
                    ELSE buffers'[k][s] = buffers[k][s]]_vars

\* C30 witness: a successful store into a buffer that held a record in a
\* slot the store did not allocate; the record is still there.
C30_Witness ==
    /\ StoreSucceeded
    /\ Len(call.idxs) >= 1
    /\ call.size0 > 0
    /\ \E s \in Slots :
          /\ \A i \in 1 .. Len(call.idxs) : call.idxs[i] # s
          /\ \A k \in KeySet(variant) : buffers[k][s] # Uninit
          /\ buffers["u"][s] < FirstTag

====
